---------------------------- MODULE Spec2Model ----------------------------
(***************************************************************************)
(* Model of src/static/script.js: the browser-side control surface of a    *)
(* remote scraping job.  All handlers run on one event loop; a handler     *)
(* runs to its next await without interruption.  Every handler touches     *)
(* the page only before its fetch is issued and after its response body    *)
(* has been parsed, so each handler is two atomic steps: the step that     *)
(* issues the request and the step that processes its outcome.  Requests   *)
(* in flight may be answered in any order.  The Remote Job Service is      *)
(* opaque: every outcome of a request is a nondeterministic input.         *)
(***************************************************************************)
EXTENDS Naturals, FiniteSets

\* ------------------------------------------------------------------ bounds

\* Timer ids the browser can hand out (1..MaxTimers).
MaxTimers == 2

\* Requests that may be in flight at once, per endpoint.
MaxStartReqs == 2

MaxStatusReqs == 2

MaxStopReqs == 1

MaxResultsReqs == 1

\* Largest result set / results_df length the service reports.
MaxRows == 1

\* ------------------------------------------------------------- definitions

\* The value of statusInterval while no handle is stored (undefined / null).
NoTimer == 0

TimerIds == 1..MaxTimers

\* Texts the status message element can show.
InitialText == "initial"

StartMessage == "start: data.message"

StartFailedText == "Failed to start scraping. Check console for errors."

StopMessage == "stop: data.message"

StopFailedText == "Failed to send stop signal."

StatusText == "data.status_message"

PollErrorText == "Error connecting to server. Polling stopped."

\* The sizes of a result set, and of data.results_df: empty, or MaxRows
\* records.
ResultSizes == {0, MaxRows}

\* What a snapshot carries for updateUI (the two fractions and the three
\* counts), as two distinguishable renderings.
ProgressValues == {"early", "late"}


\* A status snapshot as far as the handlers read it; results_df is the
\* length of data.results_df, 0 when it is absent.
Snapshots ==
    [scraping_active : BOOLEAN, results_df : ResultSizes,
     progress : ProgressValues]

\* data.scraped_count, one of the counts updateUI renders: nothing is
\* scraped yet in the early rendering, some items are in the late one.
scraped_count(data) == IF data.progress = "late" THEN 3 ELSE 0

\* What the operator may have typed into a numeric field of the form; one
\* field stands for the four (max-workers, max-scrolls, scroll-pause,
\* scrape-timeout), which are parsed alike.
FieldTexts == {"4", "abc"}

\* parseInt(text) / parseFloat(text): the number the text starts with, NaN
\* (nan, with no value to speak of) when it starts with none.
parseInt(text) ==
    IF text = "4" THEN [nan |-> FALSE, value |-> 4]
    ELSE [nan |-> TRUE, value |-> 0]

\* A start request, identified by the control states just before the click
\* that issued it (history).
PreStates ==
    [start : BOOLEAN, stop : BOOLEAN, download : BOOLEAN]

VARIABLES
    startDisabled,      \* startButton.disabled
    stopDisabled,       \* stopButton.disabled
    downloadDisabled,   \* downloadButton.disabled
    statusMessage,      \* statusMessage.textContent
    progressShown,      \* what updateUI rendered last (bars and counts)
    rows,               \* number of rows in resultsBody
    statusInterval,     \* the stored handle of the status timer
    timers,             \* the status timers the browser keeps firing
    startReqs,          \* /start-scraping requests in flight, by pre-state
    stopReqs,           \* /stop-scraping requests in flight
    statusReqs,         \* /status requests in flight: [current, cancelled]
    resultsReqs,        \* /get-results requests in flight
    unlockOwed,         \* history: a start was accepted and not yet unlocked
    stopHandled,        \* history: a stop response since the last start click
    staleShown          \* history: the table shows the records of a result
                        \* fetch issued before the last start click

vars ==
    << startDisabled, stopDisabled, downloadDisabled, statusMessage,
       progressShown, rows, statusInterval, timers, startReqs, stopReqs,
       statusReqs, resultsReqs, unlockOwed, stopHandled, staleShown >>

controls == << startDisabled, stopDisabled, downloadDisabled >>

poller == << statusInterval, timers >>

StartInFlight ==
    LET RECURSIVE Sum(_)
        Sum(S) == IF S = {} THEN 0
                  ELSE LET p == CHOOSE q \in S : TRUE
                       IN startReqs[p] + Sum(S \ {p})
    IN Sum(PreStates)

StatusInFlight == statusReqs.current + statusReqs.cancelled

ResultsInFlight == resultsReqs.fresh + resultsReqs.stale

\* Every result fetch in flight was issued before the click being handled.
MarkStale(reqs) == [fresh |-> 0, stale |-> reqs.fresh + reqs.stale]

\* clearInterval(h): the browser stops firing timer h.
clearInterval(ts, h) == ts \ {h}

\* setInterval returns an id no timer has had before; here: the least id
\* that is neither live nor the one the stored handle still names.
NewTimerId(ts, h) ==
    CHOOSE id \in TimerIds \ (ts \cup {h}) :
        \A other \in TimerIds \ (ts \cup {h}) : id <= other

\* Every status request in flight was issued by a repetition that is now
\* cancelled.
CancelAll(reqs) ==
    [current |-> 0, cancelled |-> reqs.current + reqs.cancelled]

\* Variant: line 15 is missing, the stored repetition is never cancelled.
startPollingStatusNoClear ==
    /\ TimerIds \ (timers \cup {statusInterval}) # {}
    /\ statusInterval' = NewTimerId(timers, statusInterval)
    /\ timers' = timers \cup {statusInterval'}

\* startPollingStatus(): cancel the stored repetition if any, arm a new one.
startPollingStatus ==
    LET cleared == IF statusInterval # NoTimer
                   THEN clearInterval(timers, statusInterval)
                   ELSE timers
    IN  /\ TimerIds \ (cleared \cup {statusInterval}) # {}
        /\ statusInterval' = NewTimerId(cleared, statusInterval)
        /\ timers' = cleared \cup {statusInterval'}

\* stopPollingStatus(): cancel the stored repetition, forget the handle.
stopPollingStatus ==
    /\ timers' = clearInterval(timers, statusInterval)
    /\ statusInterval' = NoTimer

\* updateUI(data): status text, both progress bars, both counts.
updateUI(data) ==
    /\ statusMessage' = StatusText
    /\ progressShown' = data.progress

\* The disabled attributes the page loads with are set by its markup: the
\* idle state, no job active and no results (start enabled, stop and
\* download disabled).
InitialControls == << FALSE, TRUE, TRUE >>

Init ==
    /\ startDisabled = InitialControls[1]
    /\ stopDisabled = InitialControls[2]
    /\ downloadDisabled = InitialControls[3]
    /\ statusMessage = InitialText
    /\ progressShown = "early"
    /\ rows = 0
    /\ statusInterval = NoTimer
    /\ timers = {}
    /\ startReqs = [p \in PreStates |-> 0]
    /\ stopReqs = 0
    /\ statusReqs = [current |-> 0, cancelled |-> 0]
    /\ resultsReqs = [fresh |-> 0, stale |-> 0]
    /\ unlockOwed = FALSE
    /\ stopHandled = FALSE
    /\ staleShown = FALSE

\* ------------------------------------------------------ start button click

\* Variant: line 96 is missing, the download control is not disabled.
StartClickKeepingDownload(text) ==
    /\ ~startDisabled
    /\ StartInFlight < MaxStartReqs
    /\ text \in FieldTexts
    /\ LET config == [max_workers |-> parseInt(text)]  \* the request body
           pre == [start |-> startDisabled, stop |-> stopDisabled,
                   download |-> downloadDisabled]
       IN startReqs' = [startReqs EXCEPT ![pre] = @ + 1]
    /\ startDisabled' = TRUE
    /\ stopDisabled' = FALSE
    /\ rows' = 0
    /\ resultsReqs' = MarkStale(resultsReqs)
    /\ stopHandled' = FALSE
    /\ staleShown' = FALSE
    /\ UNCHANGED << downloadDisabled, statusMessage, progressShown, poller,
                    stopReqs, statusReqs, unlockOwed >>

\* The click handler up to its await: read the form, lock the controls,
\* clear the table, send the request.  A disabled button fires no click.
\* The parsed config goes into the request body as it is, NaN included;
\* nothing the page does afterwards depends on it, so the request in flight
\* is recorded without it.
StartClick(text) ==
    /\ ~startDisabled
    /\ StartInFlight < MaxStartReqs
    /\ text \in FieldTexts
    /\ LET config == [max_workers |-> parseInt(text)]  \* the request body
           pre == [start |-> startDisabled, stop |-> stopDisabled,
                   download |-> downloadDisabled]
       IN startReqs' = [startReqs EXCEPT ![pre] = @ + 1]
    /\ startDisabled' = TRUE
    /\ stopDisabled' = FALSE
    /\ downloadDisabled' = TRUE
    /\ rows' = 0
    /\ resultsReqs' = MarkStale(resultsReqs)
    /\ stopHandled' = FALSE
    /\ staleShown' = FALSE
    /\ UNCHANGED << statusMessage, progressShown, poller, stopReqs,
                    statusReqs, unlockOwed >>

\* The response is ok: show the message, start the Poller.
StartAccepted(pre) ==
    /\ startReqs[pre] > 0
    /\ startReqs' = [startReqs EXCEPT ![pre] = @ - 1]
    /\ statusMessage' = StartMessage
    /\ startPollingStatus
    /\ statusReqs' = IF statusInterval # NoTimer THEN CancelAll(statusReqs)
                     ELSE statusReqs
    /\ unlockOwed' = TRUE
    /\ UNCHANGED << controls, progressShown, rows, stopReqs, resultsReqs,
                    stopHandled,
                    staleShown >>

\* Variant: line 111 is missing, the stop control is not disabled.
StartRejectedNoStopLock(pre) ==
    /\ startReqs[pre] > 0
    /\ startReqs' = [startReqs EXCEPT ![pre] = @ - 1]
    /\ statusMessage' = StartMessage
    /\ startDisabled' = FALSE
    /\ UNCHANGED << stopDisabled, downloadDisabled, progressShown, rows,
                    poller, stopReqs, statusReqs, resultsReqs, unlockOwed,
                    stopHandled,
                    staleShown >>

\* The response is not ok: show the message, unlock start, lock stop.
StartRejected(pre) ==
    /\ startReqs[pre] > 0
    /\ startReqs' = [startReqs EXCEPT ![pre] = @ - 1]
    /\ statusMessage' = StartMessage
    /\ startDisabled' = FALSE
    /\ stopDisabled' = TRUE
    /\ UNCHANGED << downloadDisabled, progressShown, rows, poller, stopReqs,
                    statusReqs, resultsReqs, unlockOwed, stopHandled,
                    staleShown >>

\* Variant: line 116 is missing, the start control stays disabled.
StartFailedNoUnlock(pre) ==
    /\ startReqs[pre] > 0
    /\ startReqs' = [startReqs EXCEPT ![pre] = @ - 1]
    /\ statusMessage' = StartFailedText
    /\ stopDisabled' = TRUE
    /\ UNCHANGED << startDisabled, downloadDisabled, progressShown, rows,
                    poller, stopReqs, statusReqs, resultsReqs, unlockOwed,
                    stopHandled,
                    staleShown >>

\* Variant: line 117 is missing, the stop control is not disabled.
StartFailedNoStopLock(pre) ==
    /\ startReqs[pre] > 0
    /\ startReqs' = [startReqs EXCEPT ![pre] = @ - 1]
    /\ statusMessage' = StartFailedText
    /\ startDisabled' = FALSE
    /\ UNCHANGED << stopDisabled, downloadDisabled, progressShown, rows,
                    poller, stopReqs, statusReqs, resultsReqs, unlockOwed,
                    stopHandled,
                    staleShown >>

\* fetch or response.json() threw.
StartFailed(pre) ==
    /\ startReqs[pre] > 0
    /\ startReqs' = [startReqs EXCEPT ![pre] = @ - 1]
    /\ statusMessage' = StartFailedText
    /\ startDisabled' = FALSE
    /\ stopDisabled' = TRUE
    /\ UNCHANGED << downloadDisabled, progressShown, rows, poller, stopReqs,
                    statusReqs, resultsReqs, unlockOwed, stopHandled,
                    staleShown >>

\* ------------------------------------------------------- stop button click

\* The click handler up to its await: send the request, touch nothing.
StopClick ==
    /\ ~stopDisabled
    /\ stopReqs < MaxStopReqs
    /\ stopReqs' = stopReqs + 1
    /\ UNCHANGED << controls, statusMessage, progressShown, rows, poller,
                    startReqs, statusReqs, resultsReqs, unlockOwed,
                    stopHandled,
                    staleShown >>

\* Variant: line 126 is missing, the stop control is not disabled.
StopRespondedNoLock ==
    /\ stopReqs > 0
    /\ stopReqs' = stopReqs - 1
    /\ statusMessage' = StopMessage
    /\ stopHandled' = TRUE
    /\ UNCHANGED << controls, progressShown, rows, poller, startReqs,
                    statusReqs, resultsReqs, unlockOwed,
                    staleShown >>

\* A response arrived and its body parsed (response.ok is not looked at).
StopResponded ==
    /\ stopReqs > 0
    /\ stopReqs' = stopReqs - 1
    /\ statusMessage' = StopMessage
    /\ stopDisabled' = TRUE
    /\ stopHandled' = TRUE
    /\ UNCHANGED << startDisabled, downloadDisabled, progressShown, rows,
                    poller, startReqs, statusReqs, resultsReqs, unlockOwed,
                    staleShown >>

\* fetch or response.json() threw.
StopFailed ==
    /\ stopReqs > 0
    /\ stopReqs' = stopReqs - 1
    /\ statusMessage' = StopFailedText
    /\ UNCHANGED << controls, progressShown, rows, poller, startReqs,
                    statusReqs, resultsReqs, unlockOwed, stopHandled,
                    staleShown >>

\* ------------------------------------------------------------- the Poller

\* A live status timer fires: the callback issues GET /status.
PollTick ==
    /\ timers # {}
    /\ StatusInFlight < MaxStatusReqs
    /\ statusReqs' = [statusReqs EXCEPT !.current = @ + 1]
    /\ UNCHANGED << controls, statusMessage, progressShown, rows, poller,
                    startReqs, stopReqs, resultsReqs, unlockOwed,
                    stopHandled,
                    staleShown >>

\* One status request in flight is answered; which one is the input `tag`.
TakeStatus(tag) ==
    /\ statusReqs[tag] > 0
    /\ statusReqs' = [statusReqs EXCEPT ![tag] = @ - 1]

\* Variant: line 25 is missing, the stop control is not disabled.
TerminateLeavingStop(data) ==
    /\ stopPollingStatus
    /\ startDisabled' = FALSE
    /\ stopDisabled' = stopDisabled
    /\ downloadDisabled' = IF data.results_df > 0 THEN FALSE
                           ELSE downloadDisabled

\* Variant: line 26 tests scraped_count instead of results_df.
TerminateOnScrapedCount(data) ==
    /\ stopPollingStatus
    /\ startDisabled' = FALSE
    /\ stopDisabled' = TRUE
    /\ downloadDisabled' = IF scraped_count(data) > 0 THEN FALSE
                           ELSE downloadDisabled

\* Lines 22-29: the job is reported inactive while start is disabled.
Terminate(data) ==
    /\ stopPollingStatus
    /\ startDisabled' = FALSE
    /\ stopDisabled' = TRUE
    /\ downloadDisabled' = IF data.results_df > 0 THEN FALSE
                           ELSE downloadDisabled

\* Variant: line 22 tests the lock only, not scraping_active.
JobEndedIgnoringActive(data) == startDisabled

\* Line 22: the latest snapshot says inactive and start is still disabled.
JobEnded(data) == ~data.scraping_active /\ startDisabled

\* The callback after its awaits, on a parsed snapshot.
StatusResponded(tag, data) ==
    /\ statusReqs[tag] > 0
    /\ updateUI(data)
    /\ IF JobEnded(data)
       THEN /\ Terminate(data)
            /\ statusReqs' = CancelAll([statusReqs EXCEPT ![tag] = @ - 1])
            /\ unlockOwed' = FALSE
       ELSE /\ TakeStatus(tag)
            /\ UNCHANGED << controls, poller, unlockOwed >>
    /\ UNCHANGED << rows, startReqs, stopReqs, resultsReqs, stopHandled,
                    staleShown >>

\* Variant: line 33 is missing, the Poller keeps running after a failure.
StatusFailedRetry(tag) ==
    /\ statusReqs[tag] > 0
    /\ statusMessage' = PollErrorText
    /\ TakeStatus(tag)
    /\ UNCHANGED << controls, progressShown, rows, poller, startReqs,
                    stopReqs, resultsReqs, unlockOwed, stopHandled,
                    staleShown >>

\* fetch or response.json() threw inside the callback.
StatusFailed(tag) ==
    /\ statusReqs[tag] > 0
    /\ statusMessage' = PollErrorText
    /\ stopPollingStatus
    /\ statusReqs' = CancelAll([statusReqs EXCEPT ![tag] = @ - 1])
    /\ UNCHANGED << controls, progressShown, rows, startReqs, stopReqs,
                    resultsReqs, unlockOwed, stopHandled,
                    staleShown >>

\* ----------------------------------------------------- the Result Fetcher

\* The 10 s timer of line 137 fires: GET /get-results is issued.
FetchTick ==
    /\ ResultsInFlight < MaxResultsReqs
    /\ resultsReqs' = [resultsReqs EXCEPT !.fresh = @ + 1]
    /\ UNCHANGED << controls, statusMessage, progressShown, rows, poller,
                    startReqs, stopReqs, statusReqs, unlockOwed,
                    stopHandled, staleShown >>

\* One result fetch in flight is answered; which one is the input `tag`.
TakeResults(tag) ==
    /\ resultsReqs[tag] > 0
    /\ resultsReqs' = [resultsReqs EXCEPT ![tag] = @ - 1]

ResultsTags == {"fresh", "stale"}

\* Variant: the test of line 74 is missing, download is always enabled.
fetchAndDisplayResultsAlwaysEnabling(n) ==
    /\ \E tag \in ResultsTags :
         /\ TakeResults(tag)
         /\ staleShown' = (tag = "stale" /\ n > 0)
    /\ rows' = n
    /\ downloadDisabled' = FALSE
    /\ UNCHANGED << startDisabled, stopDisabled, statusMessage, progressShown,
                    poller, startReqs, stopReqs, statusReqs, unlockOwed,
                    stopHandled >>

\* Variant: the answer of a fetch issued before the last start click is
\* dropped.
fetchAndDisplayResultsDroppingStale(n) ==
    /\ \E tag \in ResultsTags :
         /\ TakeResults(tag)
         /\ IF tag = "stale"
            THEN UNCHANGED << rows, downloadDisabled, staleShown >>
            ELSE /\ rows' = n
                 /\ downloadDisabled' = IF n > 0 THEN FALSE
                                        ELSE downloadDisabled
                 /\ staleShown' = FALSE
    /\ UNCHANGED << startDisabled, stopDisabled, statusMessage, progressShown,
                    poller, startReqs, stopReqs, statusReqs, unlockOwed,
                    stopHandled >>

\* fetchAndDisplayResults after its awaits, on a result set of n records.
\* The answer is rendered whichever fetch it belongs to.
fetchAndDisplayResults(n) ==
    /\ \E tag \in ResultsTags :
         /\ TakeResults(tag)
         /\ staleShown' = (tag = "stale" /\ n > 0)
    /\ rows' = n
    /\ downloadDisabled' = IF n > 0 THEN FALSE ELSE downloadDisabled
    /\ UNCHANGED << startDisabled, stopDisabled, statusMessage, progressShown,
                    poller, startReqs, stopReqs, statusReqs, unlockOwed,
                    stopHandled >>

\* fetch or response.json() threw: only the console is written.
ResultsFailed ==
    /\ \E tag \in ResultsTags : TakeResults(tag)
    /\ UNCHANGED << controls, statusMessage, progressShown, rows, poller,
                    startReqs, stopReqs, statusReqs, unlockOwed,
                    stopHandled, staleShown >>

\* --------------------------------------------------------- download click

\* The browser is sent to /download-csv; the page state is not touched.
DownloadClick ==
    /\ ~downloadDisabled
    /\ UNCHANGED vars

StatusTags == {"current", "cancelled"}

Next ==
    \/ \E text \in FieldTexts : StartClick(text)
    \/ \E pre \in PreStates : StartAccepted(pre)
    \/ \E pre \in PreStates : StartRejected(pre)
    \/ \E pre \in PreStates : StartFailed(pre)
    \/ StopClick
    \/ StopResponded
    \/ StopFailed
    \/ PollTick
    \/ \E tag \in StatusTags, data \in Snapshots : StatusResponded(tag, data)
    \/ \E tag \in StatusTags : StatusFailed(tag)
    \/ FetchTick
    \/ \E n \in ResultSizes : fetchAndDisplayResults(n)
    \/ ResultsFailed
    \/ DownloadClick

Spec == Init /\ [][Next]_vars

\* The snapshots of a service whose job has ended.
InactiveSnapshots == {data \in Snapshots : ~data.scraping_active}

\* The steps of the page while every status request succeeds and the
\* service reports the job inactive in every snapshot.
NextInactive ==
    \/ \E text \in FieldTexts : StartClick(text)
    \/ \E pre \in PreStates : StartAccepted(pre)
    \/ \E pre \in PreStates : StartRejected(pre)
    \/ \E pre \in PreStates : StartFailed(pre)
    \/ StopClick
    \/ StopResponded
    \/ StopFailed
    \/ PollTick
    \/ \E tag \in StatusTags, data \in InactiveSnapshots :
          StatusResponded(tag, data)
    \/ FetchTick
    \/ \E n \in ResultSizes : fetchAndDisplayResults(n)
    \/ ResultsFailed
    \/ DownloadClick

\* What the browser and the network guarantee: a live timer keeps firing
\* and every request in flight is answered.  Clicks are up to the operator.
Fairness ==
    /\ WF_vars(PollTick)
    /\ WF_vars(\E tag \in StatusTags, data \in InactiveSnapshots :
                  StatusResponded(tag, data))
    /\ WF_vars(\E pre \in PreStates :
                  StartAccepted(pre) \/ StartRejected(pre) \/ StartFailed(pre))
    /\ WF_vars(StopResponded \/ StopFailed)
    /\ WF_vars(FetchTick)
    /\ WF_vars((\E n \in ResultSizes : fetchAndDisplayResults(n))
                  \/ ResultsFailed)

LiveSpec == Init /\ [][NextInactive]_vars /\ Fairness

TypeOK ==
    /\ startDisabled \in BOOLEAN /\ stopDisabled \in BOOLEAN
    /\ downloadDisabled \in BOOLEAN
    /\ progressShown \in ProgressValues
    /\ rows \in ResultSizes
    /\ statusInterval \in TimerIds \cup {NoTimer}
    /\ timers \subseteq TimerIds
    /\ StartInFlight <= MaxStartReqs
    /\ StatusInFlight <= MaxStatusReqs
    /\ stopReqs \in 0..MaxStopReqs
    /\ resultsReqs \in [ResultsTags -> 0..MaxResultsReqs]
    /\ ResultsInFlight <= MaxResultsReqs
    /\ staleShown \in BOOLEAN

\* ------------------------------------------------------------------ claims

\* C1: in every reachable state at most one status repetition is live, and
\* it is the one the stored handle names.
C1_AtMostOneRepetition ==
    /\ Cardinality(timers) <= 1
    /\ timers \subseteq {statusInterval}

\* C1 witness: a start was accepted while a repetition was live (the new id
\* is the second one only when the stored handle still named the first).
C1_RearmedWhileLive ==
    /\ statusInterval = 2
    /\ timers = {2}

\* C2 (as claimed): a status step takes start from disabled to enabled only
\* for an accepted start that has not been unlocked yet, so once per job run.
C2_UnlockOncePerRun ==
    [][(/\ \E tag \in StatusTags, data \in Snapshots :
              StatusResponded(tag, data)
        /\ startDisabled
        /\ ~startDisabled') => unlockOwed]_vars

\* C3: a step that processes a snapshot with scraping_active = TRUE leaves
\* the three controls, the Poller, the table and every request of another
\* endpoint as they were.
C3_ActiveSnapshotFrame ==
    [][\A tag \in StatusTags, data \in Snapshots :
          (data.scraping_active /\ StatusResponded(tag, data))
          => UNCHANGED << controls, poller, rows, startReqs, stopReqs,
                          resultsReqs >>]_vars

\* C3 witness: a snapshot was rendered for an accepted job that is still
\* locked with its Poller live.
C3_ActiveSeenWhileLocked ==
    /\ statusMessage = StatusText
    /\ progressShown = "late"
    /\ unlockOwed
    /\ startDisabled
    /\ ~stopDisabled
    /\ timers # {}

\* C4: a step that processes a snapshot with scraping_active = FALSE while
\* start is disabled stops the Poller, enables start, disables stop, and
\* enables download exactly when results_df is non-empty (else leaves it).
C4_TerminationStep ==
    [][\A tag \in StatusTags, data \in Snapshots :
          (~data.scraping_active /\ startDisabled /\ StatusResponded(tag, data))
          => /\ timers' = {}
             /\ statusInterval' = NoTimer
             /\ ~startDisabled'
             /\ stopDisabled'
             /\ downloadDisabled' = IF data.results_df > 0 THEN FALSE
                                    ELSE downloadDisabled]_vars

\* C4 witness: the job of an accepted start was unlocked by a snapshot that
\* carried no results, download left disabled.
C4_TerminatedWithoutResults ==
    /\ statusMessage = StatusText
    /\ ~unlockOwed
    /\ ~startDisabled
    /\ stopDisabled
    /\ downloadDisabled
    /\ statusInterval = NoTimer
    /\ timers = {}

\* C5 (as claimed): when an acceptance has been processed, with no stop
\* response handled since the click, start is disabled, stop enabled,
\* download disabled, the table empty and the Poller running.
C5_LockedAtAcceptance ==
    [][\A pre \in PreStates :
          (StartAccepted(pre) /\ ~stopHandled)
          => /\ startDisabled'
             /\ ~stopDisabled'
             /\ downloadDisabled'
             /\ rows' = 0
             /\ timers' # {}]_vars

\* C5 (amended): the click step disables start, enables stop, disables
\* download and clears the table without touching the Poller; the acceptance
\* step starts the Poller and changes neither the controls nor the table.
C5_LockAtClickPollerAtAcceptance ==
    [][/\ (\E text \in FieldTexts : StartClick(text)) =>
            /\ startDisabled'
            /\ ~stopDisabled'
            /\ downloadDisabled'
            /\ rows' = 0
            /\ UNCHANGED poller
       /\ \A pre \in PreStates :
            StartAccepted(pre) =>
                /\ Cardinality(timers') = 1
                /\ statusInterval' \in timers'
                /\ UNCHANGED << controls, rows >>]_vars

\* C5 witness: an acceptance processed after a Result Fetcher response had
\* repopulated the table and enabled download.
C5_AcceptedWithRowsShown ==
    /\ statusMessage = StartMessage
    /\ unlockOwed
    /\ startDisabled
    /\ rows > 0
    /\ ~downloadDisabled
    /\ timers # {}

\* C6: a step that processes a rejected or a failed start enables start,
\* disables stop, shows the server's message or the generic text, and
\* leaves the Poller as it was.
C6_FailedStartUnlocks ==
    [][\A pre \in PreStates :
          /\ StartRejected(pre) =>
                /\ ~startDisabled'
                /\ stopDisabled'
                /\ statusMessage' = StartMessage
                /\ UNCHANGED poller
          /\ StartFailed(pre) =>
                /\ ~startDisabled'
                /\ stopDisabled'
                /\ statusMessage' = StartFailedText
                /\ UNCHANGED poller]_vars

\* C6 witness: a start failed in transport and no Poller is running.
C6_StartFailedNoPoller ==
    /\ statusMessage = StartFailedText
    /\ ~startDisabled
    /\ stopDisabled
    /\ ~unlockOwed
    /\ timers = {}

\* C7 (as claimed): the UI is never left with start disabled while nothing
\* that could enable it again is pending: no live Poller, no start request
\* and no status request in flight.
C7_Restartable ==
    startDisabled => (timers # {} \/ StartInFlight > 0 \/ StatusInFlight > 0)

\* C8 (as claimed): the rejection step puts the start, stop and download
\* controls back to the states they had just before the click.
C8_RolledBack ==
    [][\A pre \in PreStates :
          StartRejected(pre) =>
              /\ startDisabled' = pre.start
              /\ stopDisabled' = pre.stop
              /\ downloadDisabled' = pre.download]_vars

\* C8 (amended): the rejection step puts the start and the stop control back
\* to the states they had just before the click and leaves the download
\* control as the step found it.
C8_StartStopRolledBack ==
    [][\A pre \in PreStates :
          StartRejected(pre) =>
              /\ startDisabled' = pre.start
              /\ stopDisabled' = pre.stop
              /\ downloadDisabled' = downloadDisabled]_vars

\* C8 witness: a rejection was processed; start and stop are as before the
\* click, download is still disabled and the table still cleared.
C8_RejectedDownloadStillDisabled ==
    /\ statusMessage = StartMessage
    /\ StartInFlight = 0
    /\ ~unlockOwed
    /\ ~startDisabled
    /\ stopDisabled
    /\ downloadDisabled
    /\ rows = 0

\* C9: a failed status request shows the connectivity text and stops the
\* Poller, and while no repetition is live none appears and no status
\* request is issued except through an accepted start.
C9_FailStop ==
    [][/\ \A tag \in StatusTags :
            StatusFailed(tag) =>
                /\ statusMessage' = PollErrorText
                /\ timers' = {}
                /\ statusInterval' = NoTimer
       /\ (timers = {} /\ ~ \E pre \in PreStates : StartAccepted(pre)) =>
            /\ timers' = {}
            /\ StatusInFlight' <= StatusInFlight]_vars

\* C9 witness: a poll of an accepted, still locked job failed.
C9_PollFailedWhileLocked ==
    /\ statusMessage = PollErrorText
    /\ unlockOwed
    /\ startDisabled
    /\ timers = {}

\* C10 (as claimed): when a stop request has completed, with a response or
\* with a transport failure, the stop control is disabled.
C10_StopDisabledOnAnyOutcome ==
    [][(StopResponded \/ StopFailed) => stopDisabled']_vars

\* C10 (amended): a stop response disables the stop control in the step
\* that processes it; a transport failure leaves all three controls alone.
C10_StopDisabledOnResponse ==
    [][/\ StopResponded => stopDisabled'
       /\ StopFailed => UNCHANGED controls]_vars

\* C10 witness: a stop response was processed while the Poller is still
\* live and the job still locked.
C10_StoppedBeforeInactive ==
    /\ statusMessage = StopMessage
    /\ stopHandled
    /\ stopDisabled
    /\ startDisabled
    /\ timers # {}

\* C11 (as claimed): the start control is locked from the click on, so at
\* most one start request is in flight at any time.
C11_OneStartInFlight == StartInFlight <= 1

\* C12 (as claimed): processing the answer of a status request whose
\* repetition has been cancelled changes neither the rendered status and
\* progress nor a control nor the Poller.
C12_LateStatusDiscarded ==
    [][\A data \in Snapshots :
          StatusResponded("cancelled", data)
          => UNCHANGED << statusMessage, progressShown, controls,
                          poller >>]_vars

\* C13: a step that renders a fetched result set of n records leaves n rows,
\* enables download when n > 0 and else leaves it, and changes neither
\* start nor stop nor the Poller; a failed fetch changes none of these.
C13_ResultFetcherFrame ==
    [][/\ \A n \in ResultSizes :
            fetchAndDisplayResults(n) =>
                /\ rows' = n
                /\ downloadDisabled' = IF n > 0 THEN FALSE
                                       ELSE downloadDisabled
                /\ UNCHANGED << startDisabled, stopDisabled, poller >>
       /\ ResultsFailed => UNCHANGED << rows, controls, poller >>]_vars

\* C13 witness: rows are shown and download is enabled in the middle of an
\* accepted job, whose controls and Poller are as the job left them.
C13_RowsShownMidJob ==
    /\ rows = MaxRows
    /\ ~downloadDisabled
    /\ unlockOwed
    /\ startDisabled
    /\ ~stopDisabled
    /\ timers # {}
    /\ statusMessage = StatusText

\* C17 (as claimed): whenever a status repetition is live, the start control
\* is disabled.
C17_LivePollerMeansLocked == timers # {} => startDisabled

\* C18: the start control and the stop control are never both enabled.
C18_NeverBothEnabled == startDisabled \/ stopDisabled

\* C18 witness: start was enabled again while a start request is still in
\* flight (a late unlock after a click), and stop is disabled.
C18_UnlockedWithStartPending ==
    /\ ~startDisabled
    /\ stopDisabled
    /\ StartInFlight > 0

\* C19 (as claimed): the answer of a status request of an earlier job, whose
\* repetition has been cancelled, never disables the stop control of an
\* accepted job whose Poller is live.
C19_EarlierJobKeepsStop ==
    [][\A data \in Snapshots :
          (/\ StatusResponded("cancelled", data)
           /\ unlockOwed
           /\ timers # {}
           /\ ~stopDisabled) => ~stopDisabled']_vars

\* C14 (as claimed): a start click whose numeric field does not parse to a
\* number sends no start request.
C14_NoRequestForNonNumeric ==
    [][\A text \in FieldTexts :
          (parseInt(text).nan /\ StartClick(text))
          => UNCHANGED startReqs]_vars

\* C15 (as claimed): the terminating snapshot with scraped_count > 0 enables
\* download in the step that processes it, with start enabled, stop
\* disabled and the Poller stopped.
C15_ScrapedCountEnablesDownload ==
    [][\A tag \in StatusTags, data \in Snapshots :
          (/\ ~data.scraping_active
           /\ startDisabled
           /\ scraped_count(data) > 0
           /\ StatusResponded(tag, data))
          => /\ ~downloadDisabled'
             /\ ~startDisabled'
             /\ stopDisabled'
             /\ timers' = {}]_vars

\* C15 (amended): the terminating snapshot enables download when its
\* results_df is non-empty, with start enabled, stop disabled and the Poller
\* stopped; with an empty or absent results_df it leaves download as it
\* was, whatever its scraped_count.
C15_ResultsHintEnablesDownload ==
    [][\A tag \in StatusTags, data \in Snapshots :
          (/\ ~data.scraping_active
           /\ startDisabled
           /\ StatusResponded(tag, data))
          => /\ data.results_df > 0 =>
                  /\ ~downloadDisabled'
                  /\ ~startDisabled'
                  /\ stopDisabled'
                  /\ timers' = {}
             /\ data.results_df = 0 =>
                  UNCHANGED downloadDisabled]_vars

\* C15 witness: a job was unlocked with download enabled while the table is
\* still empty: no fetched result set but the snapshot enabled it.
C15_DownloadEnabledAtTermination ==
    /\ statusMessage = StatusText
    /\ ~unlockOwed
    /\ ~startDisabled
    /\ stopDisabled
    /\ ~downloadDisabled
    /\ rows = 0
    /\ ResultsInFlight = 0
    /\ timers = {}

\* C16 (as claimed): under LiveSpec (status requests succeed, the service
\* reports inactive, timers and answers are fair) an accepted start leads to
\* start enabled, stop disabled and the Poller stopped.
C16_AcceptedLeadsToUnlocked ==
    unlockOwed ~> (~startDisabled /\ stopDisabled /\ timers = {})

\* C20 (as claimed): the answer of a result fetch issued before the last
\* start click never repopulates the table and never re-enables the download
\* control.
C20_StaleFetchDropped ==
    [][\A n \in ResultSizes :
          (fetchAndDisplayResults(n) /\ resultsReqs'.stale < resultsReqs.stale)
          => /\ rows = 0 => rows' = 0
             /\ downloadDisabled => downloadDisabled']_vars

\* C20 (amended): after a start click the table is repopulated only by the
\* answer of a result fetch, and download is re-enabled only by a non-empty
\* such answer or by a terminating snapshot that carries results; the answer
\* of a fetch issued before the click is rendered like any other: the table
\* shows its n records and download is enabled when n > 0.
C20_StaleFetchRendered ==
    [][/\ \A n \in ResultSizes :
            (fetchAndDisplayResults(n)
             /\ resultsReqs'.stale < resultsReqs.stale)
            => /\ rows' = n
               /\ downloadDisabled' = IF n > 0 THEN FALSE
                                      ELSE downloadDisabled
       /\ (rows = 0 /\ rows' > 0)
            => \E n \in (ResultSizes \ {0}) : fetchAndDisplayResults(n)
       /\ (downloadDisabled /\ ~downloadDisabled')
            => \/ \E n \in (ResultSizes \ {0}) : fetchAndDisplayResults(n)
               \/ \E tag \in StatusTags, data \in Snapshots :
                    /\ data.results_df > 0
                    /\ JobEnded(data)
                    /\ StatusResponded(tag, data)]_vars

\* C20 witness: while the start request of the last click is still pending,
\* the table shows the records of a fetch issued before that click and
\* download is enabled.
C20_StaleRowsAfterClick ==
    /\ staleShown
    /\ rows = MaxRows
    /\ ~downloadDisabled
    /\ startDisabled
    /\ StartInFlight > 0

=============================================================================
